---- MODULE Spec2Model ----
(***************************************************************************)
(* Model of the ir-attx4 infrared driver (src/index.js): the construction  *)
(* handshake, the firmware sync (version check, CRC verification, reflash),*)
(* the lazy RX listening switch, the interrupt-driven RX fetch and the raw *)
(* signal transmission, over a bus whose transfers complete in issue order.*)
(***************************************************************************)
EXTENDS Integers, Sequences, FiniteSets, TLC

\* ------------------------------------------------------------------------
\* Protocol constants (src/index.js:14-31)
\* ------------------------------------------------------------------------
PACKET_CONF == 85
FIN_CONF == 22
FIRMWARE_CMD == 1
IR_TX_CMD == 2
IR_RX_AVAIL_CMD == 3
IR_RX_CMD == 4
RX_START_CMD == 5
RX_STOP_CMD == 6
CRC_CMD == 6
MAX_SIGNAL_DURATION == 200
FIRMWARE_VERSION == 2
CRC_HIGH == 121
CRC_LOW == 168
\* retry budgets passed at the call sites
HANDSHAKE_RETRIES == 3
CRC_RETRIES == 5

\* ------------------------------------------------------------------------
\* Bounds of the model
\* ------------------------------------------------------------------------
\* operations the caller may have outstanding at once
MaxUser == 1
\* 'data' subscribers
MaxSubs == 2
\* edge listeners plus handler runs the caller's start requests may build up
MaxIrq == 2
\* pending word count the peer reports to IR_RX_AVAILABLE
MaxWords == 2
\* the reflash counter saturates here
MaxReflash == 2
\* longest response and template handed to the validator on its own
MaxLen == 2

\* ------------------------------------------------------------------------
\* Values
\* ------------------------------------------------------------------------
\* the template entry `false` (wildcard)
WILD == -1
\* no version reported yet
NoVersion == -1

Procs == {"ctor", "user"}

Min(a, b) == IF a < b THEN a ELSE b

\* n zero bytes (new Array(n) written into a Buffer)
Zeros(n) == [i \in 1..n |-> 0]

\* bytes of s from 0-based index from (inclusive) to 0-based index to
\* (exclusive), clamped as Buffer.slice clamps them
Slice(s, from, to) ==
  LET e == Min(to, Len(s))
  IN  IF from >= e THEN <<>> ELSE [i \in 1..(e - from) |-> s[from + i]]

\* a bus transfer: which callback waits for it, the bytes sent, and the
\* values the callback closes over
Xfer(kind, who, req, n, m) ==
  [kind |-> kind, who |-> who, req |-> req, n |-> n, m |-> m]

\* label of the step just taken and its input
Step(op, who, a, b, resp) ==
  [op |-> op, who |-> who, a |-> a, b |-> b, resp |-> resp]

\* a signal or callback delivered by the step just taken
Sig(sig, who, err, buf) ==
  [sig |-> sig, who |-> who, err |-> err, buf |-> buf]

\* what the transport hands to a transfer's callback
Resp(err, bytes) == [err |-> err, bytes |-> bytes]

\* ------------------------------------------------------------------------
\* Packet codec
\* ------------------------------------------------------------------------
\* expected[index] == false is a loose comparison: it holds for false and 0
IsFalsy(e) == e = WILD \/ e = 0

RECURSIVE ValidateFrom(_, _, _)
ValidateFrom(values, expected, index) ==
  IF index > Len(expected) THEN TRUE
  ELSE IF IsFalsy(expected[index]) THEN ValidateFrom(values, expected, index + 1)
  ELSE IF index > Len(values) THEN FALSE
  ELSE IF expected[index] # values[index] THEN FALSE
  ELSE ValidateFrom(values, expected, index + 1)

validateResponse(values, expected) == ValidateFrom(values, expected, 1)

\* signalDurations.length / 2: a fraction for an odd length, kept apart
\* from every byte value and from the falsy values
HalfOf(len) == IF len % 2 = 0 THEN len \div 2 ELSE -(len + 1)

\* a number stored into a Buffer keeps its integer part
ToByte(len) == len \div 2

constructTXPacket(frequency, signalDurations) ==
  <<IR_TX_CMD, frequency, ToByte(Len(signalDurations))>>
    \o signalDurations \o <<0, FIN_CONF>>

\* ------------------------------------------------------------------------
\* State
\* ------------------------------------------------------------------------
VARIABLES
  bus,            \* transfers issued and not yet completed, oldest first
  connected,      \* this.connected
  listening,      \* this.listening
  transmitting,   \* this.transmitting
  dataListeners,  \* number of 'data' subscribers
  irqArmed,       \* number of one-shot 'high' listeners on the interrupt line
  deferTimers,    \* pending 500 ms timers of deferred interrupt handler runs
  ctorPc,         \* where the construction sequence stands
  version,        \* version reported to the handshake
  errPending,     \* emitError's setImmediate is scheduled
  readyPending,   \* afterUpdate's setImmediate is scheduled
  errorsEmitted,  \* 'error' signals emitted
  readyEmitted,   \* 'ready' signals emitted
  hsQueries,      \* version queries issued by the handshake
  syncAttempts,   \* checkForFirmwareUpdate calls made by the constructor
  crcPc,          \* per verification: idle, flash, settle or crc
  reflashes,      \* per verification: firmware.update calls (saturating)
  queried,        \* per verification: a CRC query has been issued
  ctorCb,         \* what use()'s callback received: none, ok or err
  evt,            \* the step just taken and its input
  out,            \* signals and callbacks delivered by the step just taken
  codec           \* a call of _validateResponse on its own: inputs and result

hsVars == <<ctorPc, version, errPending, readyPending, hsQueries, syncAttempts, ctorCb>>
sigVars == <<errorsEmitted, readyEmitted>>
crcVars == <<crcPc, reflashes, queried>>
irqVars == <<irqArmed, deferTimers>>
linkVars == <<listening, transmitting, dataListeners>>

vars == <<bus, connected, hsVars, sigVars, crcVars, irqVars, linkVars, evt, out, codec>>

\* ------------------------------------------------------------------------
\* Transfers the driver issues
\* ------------------------------------------------------------------------
getFirmwareVersion(who, retries) ==
  Xfer("version", who, <<FIRMWARE_CMD, 0, 0>>, retries, 0)

readFirmwareCRC(who, retries) ==
  Xfer("crc", who, <<CRC_CMD, 0, 0, 0>>, retries, 0)

ListenCmd(set) == IF set THEN RX_START_CMD ELSE RX_STOP_CMD

setListening(who, set) ==
  Xfer("listen", who, <<ListenCmd(set), 0, 0>>, IF set THEN 1 ELSE 0, 0)

fetchAvail == Xfer("avail", "irq", <<IR_RX_AVAIL_CMD, 0, 0, 0>>, 0, 0)

fetchPacket(numInt16) ==
  Xfer("fetch", "irq", <<IR_RX_CMD, 0, 0>> \o Zeros(numInt16 * 2) \o <<FIN_CONF>>, 0, 0)

sendPacket(frequency, signalDurations) ==
  Xfer("tx", "user", constructTXPacket(frequency, signalDurations),
       frequency, Len(signalDurations))

HeadIs(kind) == bus # <<>> /\ Head(bus).kind = kind

\* operations of the caller that are outstanding: its transfers and its
\* CRC verification between transfers
UserBusy ==
  Cardinality({i \in 1..Len(bus) : bus[i].who \in {"user", "sub"}})
    + (IF crcPc["user"] \in {"flash", "settle"} THEN 1 ELSE 0)

CanIssue == UserBusy < MaxUser

\* steps no property needs to tell apart carry this label
Quiet == Step("step", "none", 0, 0, <<>>)

\* ------------------------------------------------------------------------
\* What the peer may answer
\* ------------------------------------------------------------------------
Versions == {FIRMWARE_VERSION - 1, FIRMWARE_VERSION, FIRMWARE_VERSION + 1}

VersionResponses ==
  {Resp(TRUE, <<>>), Resp(FALSE, <<PACKET_CONF, 0, FIRMWARE_VERSION>>)}
    \cup {Resp(FALSE, <<PACKET_CONF, FIRMWARE_CMD, v>>) : v \in Versions}

\* a peer whose firmware is current, or whose answer is lost
CurrentVersionResponses ==
  {Resp(TRUE, <<>>), Resp(FALSE, <<PACKET_CONF, FIRMWARE_CMD, FIRMWARE_VERSION>>)}

CrcResponses ==
  { Resp(TRUE, <<>>),
    Resp(FALSE, <<PACKET_CONF, CRC_CMD, CRC_HIGH, CRC_LOW>>),
    Resp(FALSE, <<PACKET_CONF, CRC_CMD, CRC_HIGH, 0>>) }

\* ------------------------------------------------------------------------
\* Handshake
\* ------------------------------------------------------------------------
\* getFirmwareVersion's spiComplete: what it passes to its callback
getFirmwareVersionResult(r) ==
  IF r.err THEN [err |-> TRUE, version |-> NoVersion]
  ELSE IF validateResponse(r.bytes, <<WILD, FIRMWARE_CMD>>) /\ Len(r.bytes) = 3
       THEN [err |-> FALSE, version |-> r.bytes[3]]
       ELSE [err |-> TRUE, version |-> NoVersion]

\* (variant: the budget is tested one query too late)
EstablishOutcome_LateFail(err, retries) ==
  IF err THEN (IF retries - 1 < 0 THEN "fail" ELSE "retry") ELSE "connected"

\* (variant: only an answer to the first query counts as a success)
EstablishOutcome_FirstOnly(err, retries) ==
  IF err \/ retries < HANDSHAKE_RETRIES
  THEN (IF retries - 1 = 0 THEN "fail" ELSE "retry")
  ELSE "connected"

\* _establishCommunication's callback: retry, fail or connected
EstablishOutcome(err, retries) ==
  IF err THEN (IF retries - 1 = 0 THEN "fail" ELSE "retry") ELSE "connected"

\* (variant: the pinned version itself counts as stale)
NeedsUpdate_Inclusive(v) == v <= FIRMWARE_VERSION

\* checkForFirmwareUpdate's test
NeedsUpdate(v) == v < FIRMWARE_VERSION

\* updateFirmware: firmware.update is called for verification p
updateFirmware(p) ==
  /\ crcPc' = [crcPc EXCEPT ![p] = "flash"]
  /\ reflashes' = [reflashes EXCEPT ![p] = Min(@ + 1, MaxReflash)]
  /\ queried' = queried

\* (variant: readiness is scheduled before the error is looked at)
afterUpdate_ReadyFirst(err, b) ==
  /\ readyPending' = TRUE
  /\ IF err
     THEN /\ errPending' = TRUE
          /\ ctorPc' = "syncFailed"
          /\ bus' = b
          /\ connected' = connected
     ELSE /\ connected' = TRUE
          /\ ctorPc' = "setListening"
          /\ bus' = Append(b, setListening("ctor", FALSE))
          /\ errPending' = errPending

\* afterUpdate, the constructor's continuation of the firmware sync, with
\* b the bus once the completed transfer is taken off
afterUpdate(err, b) ==
  IF err
  THEN /\ errPending' = TRUE
       /\ ctorPc' = "syncFailed"
       /\ bus' = b
       /\ UNCHANGED <<connected, readyPending>>
  ELSE /\ connected' = TRUE
       /\ readyPending' = TRUE
       /\ ctorPc' = "setListening"
       /\ bus' = Append(b, setListening("ctor", FALSE))
       /\ errPending' = errPending

\* no call of the validator on its own
NoCall == [values |-> <<>>, expected |-> <<>>, result |-> "idle"]

\* the driver after construction
DriverInit ==
  /\ bus = <<getFirmwareVersion("ctor", HANDSHAKE_RETRIES)>>
  /\ connected = FALSE
  /\ listening = FALSE
  /\ transmitting = FALSE
  /\ dataListeners = 0
  /\ irqArmed = 0
  /\ deferTimers = 0
  /\ ctorPc = "handshake"
  /\ version = NoVersion
  /\ errPending = FALSE
  /\ readyPending = FALSE
  /\ errorsEmitted = 0
  /\ readyEmitted = 0
  /\ hsQueries = 1
  /\ syncAttempts = 0
  /\ crcPc = [p \in Procs |-> "idle"]
  /\ reflashes = [p \in Procs |-> 0]
  /\ queried = [p \in Procs |-> FALSE]
  /\ ctorCb = "none"
  /\ evt = Quiet
  /\ out = <<>>

Init == DriverInit /\ codec = NoCall

\* the callback _establishCommunication gives to getFirmwareVersion
EstablishDone(responses) ==
  /\ HeadIs("version") /\ Head(bus).who = "ctor"
  /\ \E r \in responses :
       LET x == Head(bus)
           res == getFirmwareVersionResult(r)
           oc == EstablishOutcome(res.err, x.n)
       IN  /\ evt' = Step("establish", "ctor", x.n, IF r.err THEN 1 ELSE 0, r.bytes)
           /\ out' = <<>>
           /\ UNCHANGED <<sigVars, irqVars, linkVars, ctorCb>>
           /\ CASE oc = "retry" ->
                     /\ bus' = Append(Tail(bus), getFirmwareVersion("ctor", x.n - 1))
                     /\ hsQueries' = hsQueries + 1
                     /\ UNCHANGED <<connected, ctorPc, version, errPending,
                                    readyPending, syncAttempts, crcVars>>
                [] oc = "fail" ->
                     /\ bus' = Tail(bus)
                     /\ errPending' = TRUE
                     /\ ctorPc' = "hsFailed"
                     /\ UNCHANGED <<connected, version, readyPending, hsQueries,
                                    syncAttempts, crcVars>>
                [] OTHER ->
                     /\ version' = res.version
                     /\ syncAttempts' = syncAttempts + 1
                     /\ hsQueries' = hsQueries
                     /\ IF NeedsUpdate(res.version)
                        THEN /\ connected' = TRUE
                             /\ updateFirmware("ctor")
                             /\ ctorPc' = "sync"
                             /\ bus' = Tail(bus)
                             /\ UNCHANGED <<errPending, readyPending>>
                        ELSE /\ afterUpdate(FALSE, Tail(bus))
                             /\ UNCHANGED crcVars
  /\ UNCHANGED codec

\* emitError's setImmediate callback
EmitError ==
  /\ errPending
  /\ errPending' = FALSE
  /\ errorsEmitted' = errorsEmitted + 1
  /\ evt' = Quiet
  /\ out' = <<Sig("error", "ctor", TRUE, <<>>)>>
  /\ UNCHANGED <<bus, connected, ctorPc, version, readyPending, hsQueries,
                 syncAttempts, ctorCb, readyEmitted, crcVars, irqVars, linkVars>>
  /\ UNCHANGED codec

\* afterUpdate's setImmediate callback: emit 'ready', arm the edge listener
EmitReady ==
  /\ readyPending
  /\ readyPending' = FALSE
  /\ readyEmitted' = readyEmitted + 1
  /\ irqArmed' = irqArmed + 1
  /\ evt' = Quiet
  /\ out' = <<Sig("ready", "ctor", FALSE, <<>>)>>
  /\ UNCHANGED <<bus, connected, ctorPc, version, errPending, hsQueries,
                 syncAttempts, ctorCb, errorsEmitted, crcVars, deferTimers, linkVars>>
  /\ UNCHANGED codec

\* ------------------------------------------------------------------------
\* Firmware sync
\* ------------------------------------------------------------------------
\* firmware.update's completion: start the 500 ms settle timer
FlashDone(p) ==
  /\ crcPc[p] = "flash"
  /\ crcPc' = [crcPc EXCEPT ![p] = "settle"]
  /\ evt' = Quiet
  /\ out' = <<>>
  /\ UNCHANGED <<bus, connected, hsVars, sigVars, reflashes, queried, irqVars, linkVars>>
  /\ UNCHANGED codec

\* the settle timer: readFirmwareCRC(5, callback)
SettleDone(p) ==
  /\ crcPc[p] = "settle"
  /\ crcPc' = [crcPc EXCEPT ![p] = "crc"]
  /\ queried' = [queried EXCEPT ![p] = TRUE]
  /\ bus' = Append(bus, readFirmwareCRC(p, CRC_RETRIES))
  /\ evt' = Quiet
  /\ out' = <<>>
  /\ UNCHANGED <<connected, hsVars, sigVars, reflashes, irqVars, linkVars>>
  /\ UNCHANGED codec

\* gotCRC's decision: err, ok, retry or reflash
CrcOutcome(r, retries) ==
  IF r.err THEN "err"
  ELSE IF validateResponse(r.bytes, <<WILD, CRC_CMD, CRC_HIGH, CRC_LOW>>)
          /\ Len(r.bytes) = 4
       THEN "ok"
       ELSE IF retries - 1 > 0 THEN "retry" ELSE "reflash"

\* readFirmwareCRC's gotCRC
CrcDone ==
  /\ HeadIs("crc")
  /\ \E r \in CrcResponses :
       LET x == Head(bus)
           p == x.who
           oc == CrcOutcome(r, x.n)
       IN  /\ evt' = Quiet
           /\ UNCHANGED <<sigVars, irqVars, linkVars, version, hsQueries,
                          syncAttempts, ctorCb>>
           /\ CASE oc = "retry" ->
                     /\ bus' = Append(Tail(bus), readFirmwareCRC(p, x.n - 1))
                     /\ out' = <<>>
                     /\ UNCHANGED <<connected, ctorPc, errPending, readyPending, crcVars>>
                [] oc = "reflash" ->
                     /\ bus' = Tail(bus)
                     /\ updateFirmware(p)
                     /\ out' = <<>>
                     /\ UNCHANGED <<connected, ctorPc, errPending, readyPending>>
                [] OTHER ->
                     /\ crcPc' = [crcPc EXCEPT ![p] = "idle"]
                     /\ UNCHANGED <<reflashes, queried>>
                     /\ IF p = "ctor"
                        THEN /\ afterUpdate(oc = "err", Tail(bus))
                             /\ out' = <<>>
                        ELSE /\ bus' = Tail(bus)
                             /\ out' = <<Sig("callback", "crc", oc = "err", <<>>)>>
                             /\ UNCHANGED <<connected, ctorPc, errPending, readyPending>>
  /\ UNCHANGED codec

\* the caller forces a CRC verification: readFirmwareCRC(retries, callback)
UserReadCRC ==
  /\ crcPc["user"] = "idle"
  /\ CanIssue
  /\ \E retries \in {CRC_RETRIES} :
       /\ bus' = Append(bus, readFirmwareCRC("user", retries))
       /\ evt' = Quiet
  /\ crcPc' = [crcPc EXCEPT !["user"] = "crc"]
  /\ reflashes' = [reflashes EXCEPT !["user"] = 0]
  /\ queried' = [queried EXCEPT !["user"] = TRUE]
  /\ out' = <<>>
  /\ UNCHANGED <<connected, hsVars, sigVars, irqVars, linkVars>>
  /\ UNCHANGED codec

\* the caller queries the version: getFirmwareVersion(callback)
UserGetVersion ==
  /\ CanIssue
  /\ bus' = Append(bus, getFirmwareVersion("user", 0))
  /\ evt' = Quiet
  /\ out' = <<>>
  /\ UNCHANGED <<connected, hsVars, sigVars, crcVars, irqVars, linkVars>>
  /\ UNCHANGED codec

\* getFirmwareVersion's spiComplete for the caller's query
UserVersionDone ==
  /\ HeadIs("version") /\ Head(bus).who = "user"
  /\ \E r \in VersionResponses :
       LET res == getFirmwareVersionResult(r)
       IN  /\ evt' = Quiet
           /\ out' = <<Sig("callback", "version", res.err, <<res.version>>)>>
  /\ bus' = Tail(bus)
  /\ UNCHANGED <<connected, hsVars, sigVars, crcVars, irqVars, linkVars>>
  /\ UNCHANGED codec

\* ------------------------------------------------------------------------
\* Listening
\* ------------------------------------------------------------------------
\* handler runs under way: fetches on the bus and deferral timers
IrqRuns ==
  deferTimers
    + Cardinality({i \in 1..Len(bus) : bus[i].kind \in {"avail", "fetch"}})

\* start requests on the bus
StartsQueued ==
  Cardinality({i \in 1..Len(bus) : bus[i].kind = "listen" /\ bus[i].n = 1})

CanStart == CanIssue /\ irqArmed + IrqRuns + StartsQueued < MaxIrq

\* (variant: the listener count is not consulted)
NoListeners_Always(count) == TRUE

\* the newListener / removeListener tests: event == 'data' && no listeners
NoListeners(count) == count = 0

\* on('data', ...): newListener runs before the listener is added
Subscribe ==
  /\ dataListeners < MaxSubs
  /\ dataListeners' = dataListeners + 1
  /\ IF NoListeners(dataListeners)
     THEN /\ CanStart
          /\ bus' = Append(bus, setListening("sub", TRUE))
     ELSE bus' = bus
  /\ evt' = Quiet
  /\ out' = <<>>
  /\ UNCHANGED <<connected, hsVars, sigVars, crcVars, irqVars, listening, transmitting>>
  /\ UNCHANGED codec

\* removeListener('data', ...): removeListener runs after the removal
Unsubscribe ==
  /\ dataListeners > 0
  /\ dataListeners' = dataListeners - 1
  /\ IF NoListeners(dataListeners - 1)
     THEN /\ CanIssue
          /\ bus' = Append(bus, setListening("sub", FALSE))
     ELSE bus' = bus
  /\ evt' = Quiet
  /\ out' = <<>>
  /\ UNCHANGED <<connected, hsVars, sigVars, crcVars, irqVars, listening, transmitting>>
  /\ UNCHANGED codec

\* the caller calls setListening(set, callback) directly
UserSetListening ==
  /\ \E set \in BOOLEAN :
       /\ IF set THEN CanStart ELSE CanIssue
       /\ bus' = Append(bus, setListening("user", set))
       /\ evt' = Quiet
  /\ out' = <<>>
  /\ UNCHANGED <<connected, hsVars, sigVars, crcVars, irqVars, linkVars>>
  /\ UNCHANGED codec

ListenResponses(x) ==
  {Resp(FALSE, <<PACKET_CONF, x.req[1], 0>>), Resp(FALSE, <<0, 0, 0>>)}

\* setListening's listeningSet, handed the response r
ListenAnswered(r) ==
  LET x == Head(bus)
      set == x.n = 1
      valid == validateResponse(r.bytes, <<PACKET_CONF, ListenCmd(set)>>)
  IN  /\ evt' = Quiet
      /\ IF valid
         THEN /\ listening' = set
              /\ irqArmed' = IF ~set THEN 0
                             ELSE IF irqArmed = 0 THEN 1 ELSE irqArmed
         ELSE UNCHANGED <<listening, irqArmed>>
      /\ CASE x.who = "ctor" ->
                /\ ctorCb' = IF valid THEN "ok" ELSE "err"
                /\ ctorPc' = "done"
                /\ out' = <<Sig("callback", "use", ~valid, <<>>)>>
           [] x.who = "user" ->
                /\ out' = <<Sig("callback", "setListening", ~valid, <<>>)>>
                /\ UNCHANGED <<ctorCb, ctorPc>>
           [] OTHER ->
                /\ out' = <<>>
                /\ UNCHANGED <<ctorCb, ctorPc>>
      /\ bus' = Tail(bus)
      /\ UNCHANGED <<connected, version, errPending, readyPending, hsQueries,
                     syncAttempts, sigVars, crcVars, deferTimers, transmitting,
                     dataListeners>>
      /\ UNCHANGED codec

\* a listening request completes, with any answer
ListenDone ==
  /\ HeadIs("listen")
  /\ \E r \in ListenResponses(Head(bus)) : ListenAnswered(r)

\* a listening request completes and the peer echoes it
ListenEchoed ==
  /\ HeadIs("listen")
  /\ ListenAnswered(Resp(FALSE, <<PACKET_CONF, Head(bus).req[1], 0>>))

\* ------------------------------------------------------------------------
\* Interrupt-driven receive
\* ------------------------------------------------------------------------
\* k copies of the pending-count query
RECURSIVE Fetches(_)
Fetches(k) == IF k = 0 THEN <<>> ELSE <<fetchAvail>> \o Fetches(k - 1)

\* (variant: the handler fetches whether or not a transmission is under way)
MayFetch_Always(tx) == TRUE

\* _IRQHandler's test: not in the middle of transmitting
MayFetch(tx) == ~tx

\* the interrupt line goes high: every armed one-shot listener runs
\* _IRQHandler
IrqHigh ==
  /\ irqArmed > 0
  /\ irqArmed' = 0
  /\ IF MayFetch(transmitting)
     THEN /\ bus' = bus \o Fetches(irqArmed)
          /\ deferTimers' = deferTimers
     ELSE /\ deferTimers' = deferTimers + irqArmed
          /\ bus' = bus
  /\ evt' = Step("irqHigh", "irq", irqArmed, IF transmitting THEN 1 ELSE 0, <<>>)
  /\ out' = <<>>
  /\ UNCHANGED <<connected, hsVars, sigVars, crcVars, linkVars>>
  /\ UNCHANGED codec

\* a deferral timer fires: _IRQHandler runs again
DeferFire ==
  /\ deferTimers > 0
  /\ IF MayFetch(transmitting)
     THEN /\ bus' = Append(bus, fetchAvail)
          /\ deferTimers' = deferTimers - 1
     ELSE UNCHANGED <<bus, deferTimers>>
  /\ evt' = Step("irqRetry", "irq", 1, IF transmitting THEN 1 ELSE 0, <<>>)
  /\ out' = <<>>
  /\ UNCHANGED <<connected, hsVars, sigVars, crcVars, irqArmed, linkVars>>
  /\ UNCHANGED codec

AvailResponses ==
  {Resp(FALSE, <<PACKET_CONF, IR_RX_AVAIL_CMD, 1, n>>) : n \in 0..MaxWords}
    \cup {Resp(FALSE, <<PACKET_CONF, IR_RX_AVAIL_CMD, 0, 1>>)}

\* _fetchRXDurations' first spiComplete
AvailDone ==
  /\ HeadIs("avail")
  /\ \E r \in AvailResponses :
       /\ IF validateResponse(r.bytes, <<PACKET_CONF, IR_RX_AVAIL_CMD, 1>>)
          THEN bus' = Append(Tail(bus), fetchPacket(r.bytes[4]))
          ELSE bus' = Tail(bus)
       /\ evt' = Quiet
  /\ out' = <<>>
  /\ UNCHANGED <<connected, hsVars, sigVars, crcVars, irqVars, linkVars>>
  /\ UNCHANGED codec

\* payload byte i of a fetch response, in one of two patterns
PayloadByte(pattern, i) == IF pattern = 0 THEN 100 + i ELSE FIN_CONF

\* fetch responses: as long as the request, header echo, payload, tail byte
FetchResponses(x) ==
  { Resp(FALSE, [i \in 1..Len(x.req) |->
       IF i = 1 THEN PACKET_CONF
       ELSE IF i = 2 THEN IR_RX_CMD
       ELSE IF i = 3 THEN 0
       ELSE IF i = Len(x.req) THEN fin
       ELSE PayloadByte(pattern, i - 3)]) :
    fin \in {FIN_CONF, 0}, pattern \in {0, 1} }

\* the buffer the second spiComplete cuts out of an in-frame response
fetchedDurations(response) ==
  LET buf == Slice(response, 3, Len(response) - 1)
  IN  Slice(buf, 2, Len(response) - 1)

\* line 189 reads the identifier `data`; no scope of the module declares
\* it, so evaluating it throws a ReferenceError
DataDeclared == FALSE

\* (variant: the terminator test is inverted)
OutOfFrame_Inverted(fin) == fin = FIN_CONF

\* the terminator test of the second spiComplete
OutOfFrame(fin) == fin # FIN_CONF

\* _fetchRXDurations' second spiComplete, and the `fetched` callback
FetchDone ==
  /\ HeadIs("fetch")
  /\ \E r \in FetchResponses(Head(bus)) :
       LET fin == r.bytes[Len(r.bytes)]
       IN  /\ evt' = Step("fetched", "irq", 0, 0, r.bytes)
           /\ IF OutOfFrame(fin)
              THEN /\ out' = <<>>
                   /\ irqArmed' = irqArmed + 1
              ELSE IF DataDeclared
              THEN /\ out' = <<Sig("data", "irq", FALSE, fetchedDurations(r.bytes))>>
                   /\ irqArmed' = irqArmed + 1
              ELSE /\ out' = <<Sig("throw", "irq", TRUE, <<>>)>>
                   /\ irqArmed' = irqArmed
  /\ bus' = Tail(bus)
  /\ UNCHANGED <<connected, hsVars, sigVars, crcVars, deferTimers, linkVars>>
  /\ UNCHANGED codec

\* ------------------------------------------------------------------------
\* Transmit
\* ------------------------------------------------------------------------
Frequencies == {0, 38}

Ramp(n) == [i \in 1..n |-> (7 * i) % 256]

SignalBuffers ==
  {Ramp(n) : n \in {1, 2, MAX_SIGNAL_DURATION + 2}}

\* sendRawSignal's checks: how many times the callback gets an error
\* before any transfer, and whether the function goes on to transmit
sendRawSignalChecks(frequency, len) ==
  IF frequency <= 0 THEN [errors |-> 1, proceed |-> FALSE]
  ELSE IF len > MAX_SIGNAL_DURATION THEN [errors |-> 1, proceed |-> FALSE]
  ELSE IF len % 2 # 0 THEN [errors |-> 1, proceed |-> TRUE]
  ELSE [errors |-> 0, proceed |-> TRUE]

\* one call sendRawSignal(frequency, signalDurations, callback)
sendRawSignalCall(frequency, signalDurations) ==
  LET chk == sendRawSignalChecks(frequency, Len(signalDurations))
  IN  /\ evt' = Step("sendRawSignal", "user", frequency, Len(signalDurations),
                     signalDurations)
      /\ out' = IF chk.errors = 1
                THEN <<Sig("callback", "sendRawSignal", TRUE, <<>>)>>
                ELSE <<>>
      /\ IF chk.proceed
         THEN /\ transmitting' = TRUE
              /\ bus' = Append(bus, sendPacket(frequency, signalDurations))
         ELSE UNCHANGED <<transmitting, bus>>

sendRawSignal ==
  /\ CanIssue
  /\ \E frequency \in Frequencies, signalDurations \in SignalBuffers :
       sendRawSignalCall(frequency, signalDurations)
  /\ UNCHANGED <<connected, hsVars, sigVars, crcVars, irqVars, listening, dataListeners>>
  /\ UNCHANGED codec

\* frequencies and buffers of a caller that exercises the encoder: both
\* ends of the byte range, the empty buffer, the longest one and one
\* beyond it
TxFrequencies == {1, 38, 255}

TxBuffers ==
  {Ramp(n) : n \in {0, 1, 2, 3, 4, MAX_SIGNAL_DURATION, MAX_SIGNAL_DURATION + 1}}
    \cup {Zeros(n) : n \in {2, 4}}

sendRawSignalAny ==
  /\ CanIssue
  /\ \E frequency \in TxFrequencies, signalDurations \in TxBuffers :
       sendRawSignalCall(frequency, signalDurations)
  /\ UNCHANGED <<connected, hsVars, sigVars, crcVars, irqVars, listening, dataListeners>>
  /\ UNCHANGED codec

\* the echo of the request, the same echo with another word count, and
\* no echo at all
TxResponses(x) ==
  { Resp(FALSE, [i \in 1..Len(x.req) |->
       IF i = 1 THEN PACKET_CONF ELSE IF i <= 4 THEN x.req[i - 1] ELSE 0]),
    Resp(FALSE, [i \in 1..Len(x.req) |->
       IF i = 1 THEN PACKET_CONF
       ELSE IF i <= 3 THEN x.req[i - 1]
       ELSE IF i = 4 THEN (x.req[3] + 1) % 256 ELSE 0]),
    Resp(FALSE, Zeros(Len(x.req))) }

\* (variant: the flag is cleared only when the echo validates)
TransmittingAfter_ValidOnly(valid) == ~valid

\* the flag once spiComplete has run: cleared before the echo is looked at
TransmittingAfter(valid) == FALSE

\* sendRawSignal's spiComplete
TxDone ==
  /\ HeadIs("tx")
  /\ \E r \in TxResponses(Head(bus)) :
       LET x == Head(bus)
           valid == validateResponse(r.bytes,
                      <<PACKET_CONF, IR_TX_CMD, x.n, HalfOf(x.m)>>)
       IN  /\ evt' = Step("transmitted", "user", x.n, x.m, Slice(r.bytes, 0, 4))
           /\ out' = <<Sig("callback", "sendRawSignal", ~valid, <<>>)>>
           /\ transmitting' = TransmittingAfter(valid)
  /\ bus' = Tail(bus)
  /\ UNCHANGED <<connected, hsVars, sigVars, crcVars, irqVars, listening, dataListeners>>
  /\ UNCHANGED codec

\* ------------------------------------------------------------------------
\* Specification
\* ------------------------------------------------------------------------
\* the driver with a caller that subscribes, switches listening and
\* queries version and CRC, and a peer of any firmware version
Next ==
  \/ EstablishDone(VersionResponses)
  \/ EmitError
  \/ EmitReady
  \/ \E p \in Procs : FlashDone(p)
  \/ \E p \in Procs : SettleDone(p)
  \/ CrcDone
  \/ UserReadCRC
  \/ UserGetVersion
  \/ UserVersionDone
  \/ Subscribe
  \/ Unsubscribe
  \/ UserSetListening
  \/ ListenDone

\* the driver with a peer of current firmware that raises interrupts, and
\* a caller that subscribes and transmits
RxNext ==
  \/ EstablishDone(CurrentVersionResponses)
  \/ EmitError
  \/ EmitReady
  \/ Subscribe
  \/ Unsubscribe
  \/ ListenDone
  \/ IrqHigh
  \/ DeferFire
  \/ AvailDone
  \/ FetchDone
  \/ sendRawSignal
  \/ TxDone

Spec == Init /\ [][Next]_vars

\* every transfer, reflash, timer and scheduled callback completes
Completes ==
  /\ WF_vars(EstablishDone(VersionResponses))
  /\ WF_vars(EmitError)
  /\ WF_vars(EmitReady)
  /\ \A p \in Procs : WF_vars(FlashDone(p)) /\ WF_vars(SettleDone(p))
  /\ WF_vars(CrcDone)
  /\ WF_vars(UserVersionDone)
  /\ WF_vars(ListenDone)

FairSpec == Init /\ [][Next]_vars /\ Completes

RxSpec == Init /\ [][RxNext]_vars

\* the driver with a peer of current firmware and a caller that transmits
\* signals of many shapes
TxNext ==
  \/ EstablishDone(CurrentVersionResponses)
  \/ EmitError
  \/ EmitReady
  \/ ListenDone
  \/ sendRawSignalAny
  \/ TxDone

TxSpec == Init /\ [][TxNext]_vars

\* the driver with a peer of current firmware that echoes every listening
\* request, and a caller that only subscribes and unsubscribes
SubNext ==
  \/ EstablishDone(CurrentVersionResponses)
  \/ EmitError
  \/ EmitReady
  \/ Subscribe
  \/ Unsubscribe
  \/ ListenEchoed

SubSpec == Init /\ [][SubNext]_vars

\* ------------------------------------------------------------------------
\* The validator on its own
\* ------------------------------------------------------------------------
\* byte values handed to the validator: the falsy byte, a small and a
\* large one
CodecBytes == {0, 1, PACKET_CONF}

SeqsUpTo(S, n) == UNION {[1..k -> S] : k \in 0..n}

\* _validateResponse(values, expected) is called
Validate ==
  /\ codec.result = "none"
  /\ codec' = [codec EXCEPT !.result =
                 IF validateResponse(codec.values, codec.expected)
                 THEN "true" ELSE "false"]
  /\ UNCHANGED <<bus, connected, hsVars, sigVars, crcVars, irqVars, linkVars, evt, out>>

CodecInit ==
  /\ DriverInit
  /\ codec \in [values : SeqsUpTo(CodecBytes, MaxLen),
                expected : SeqsUpTo(CodecBytes \cup {WILD}, MaxLen),
                result : {"none"}]

CodecNext == Validate

CodecSpec == CodecInit /\ [][CodecNext]_vars

TypeOK ==
  /\ connected \in BOOLEAN /\ listening \in BOOLEAN /\ transmitting \in BOOLEAN
  /\ dataListeners \in 0..MaxSubs
  /\ irqArmed \in Nat /\ deferTimers \in Nat
  /\ ctorPc \in {"handshake", "hsFailed", "sync", "syncFailed", "setListening", "done"}
  /\ \A p \in Procs : crcPc[p] \in {"idle", "flash", "settle", "crc"}
  /\ \A p \in Procs : reflashes[p] \in 0..MaxReflash

\* ------------------------------------------------------------------------
\* Properties
\* ------------------------------------------------------------------------
\* the answer just handed to the handshake is a transport error or not a
\* 3-byte echo of the version query
BadAnswer ==
  evt.b = 1 \/ Len(evt.resp) # 3 \/ evt.resp[2] # FIRMWARE_CMD

HandshakeQueryOutstanding ==
  \E i \in 1..Len(bus) : bus[i].who = "ctor" /\ bus[i].req[1] = FIRMWARE_CMD

\* C1: when the first three version queries of the construction all fail,
\* exactly three are issued and never a fourth, exactly one fatal 'error'
\* is emitted (or is scheduled), connected never becomes true and 'ready'
\* is never emitted; the failure is final.
HandshakeFailsAfterThree ==
  /\ [](/\ hsQueries <= 3
        /\ (evt.op = "establish" /\ BadAnswer /\ hsQueries = 3
              /\ ~HandshakeQueryOutstanding) => ctorPc = "hsFailed"
        /\ ctorPc = "hsFailed" =>
             /\ hsQueries = 3
             /\ ~HandshakeQueryOutstanding
             /\ errorsEmitted + (IF errPending THEN 1 ELSE 0) = 1
             /\ ~connected
             /\ readyEmitted = 0 /\ ~readyPending
             /\ syncAttempts = 0)
  /\ [][ctorPc = "hsFailed" => ctorPc' = "hsFailed"]_vars

\* three failed queries, and the one fatal signal has been emitted
HandshakeFailedWitness ==
  ctorPc = "hsFailed" /\ hsQueries = 3 /\ errorsEmitted = 1 /\ ~errPending

\* C2: a version query of the construction that succeeds on the first,
\* second or third attempt makes the link connected and starts exactly one
\* firmware sync with the reported version; the handshake issues no version
\* query after it.
HandshakeSuccessSyncsOnce ==
  /\ [](/\ syncAttempts <= 1
        /\ (evt.op = "establish" /\ ~BadAnswer) =>
             /\ version = evt.resp[3]
             /\ connected
             /\ syncAttempts = 1
             /\ ~HandshakeQueryOutstanding
        /\ version # NoVersion =>
             /\ connected
             /\ syncAttempts = 1
             /\ ~HandshakeQueryOutstanding)
  /\ [][version # NoVersion =>
          /\ hsQueries' = hsQueries
          /\ syncAttempts' = syncAttempts
          /\ version' = version]_vars

\* failure, failure, success
ThirdAttemptSucceededWitness ==
  /\ evt.op = "establish" /\ ~BadAnswer
  /\ hsQueries = 3 /\ connected /\ syncAttempts = 1

\* the step issues a listening request with this command byte
IssuesListen(cmd) ==
  /\ Len(bus') >= Len(bus) /\ bus' # bus
  /\ bus'[Len(bus')].kind = "listen"
  /\ bus'[Len(bus')].req[1] = cmd

\* the step issues nothing
IssuesNothing == bus' = bus \/ (bus # <<>> /\ bus' = Tail(bus))

\* C3: a sendRawSignal call with frequency <= 0, more than 200 duration
\* bytes or an odd number of them reports an error to its caller, issues no
\* transfer and leaves transmitting false.
InvalidSignalIsRejected ==
  [][(evt'.op = "sendRawSignal"
        /\ (evt'.a <= 0 \/ evt'.b > 200 \/ evt'.b % 2 = 1)) =>
       /\ out' = <<Sig("callback", "sendRawSignal", TRUE, <<>>)>>
       /\ bus' = bus
       /\ ~transmitting']_vars

\* C4: within one CRC verification started by readFirmwareCRC, whatever the
\* peer answers, the firmware programmer is called at most once.
ReflashAtMostOnce == reflashes["user"] <= 1

\* a CRC query of verification p has mismatched after its escalated reflash
MismatchAfterReflash(p) ==
  /\ reflashes[p] >= (IF p = "ctor" THEN 2 ELSE 1)
  /\ \E i \in 1..Len(bus) :
       bus[i].kind = "crc" /\ bus[i].who = p /\ bus[i].n < CRC_RETRIES

\* verification p has handed a result to its caller
VerifyCompleted(p) ==
  /\ crcPc[p] = "idle"
  /\ p = "ctor" => ctorPc \in {"syncFailed", "setListening", "done"}

\* C5: once a CRC query has mismatched after the escalated reflash, the
\* verification (and the firmware sync of the construction that started
\* it) eventually completes, given that every transfer and reflash
\* completes.
VerifyTerminates ==
  \A p \in Procs : MismatchAfterReflash(p) ~> VerifyCompleted(p)

\* C6: checkForFirmwareUpdate calls the firmware programmer exactly once,
\* before any CRC query, when the reported version is below the pinned one;
\* for a version at or above it, it never calls it, issues no query and
\* completes without error.
ReflashOnlyWhenOlder ==
  /\ [](/\ version = NoVersion => reflashes["ctor"] = 0
        /\ (version # NoVersion /\ version >= FIRMWARE_VERSION) =>
             /\ reflashes["ctor"] = 0
             /\ ~queried["ctor"]
             /\ crcPc["ctor"] = "idle"
             /\ ctorPc \in {"setListening", "done"}
             /\ ~errPending /\ errorsEmitted = 0
        /\ (version # NoVersion /\ version < FIRMWARE_VERSION) =>
             /\ reflashes["ctor"] >= 1
             /\ ~queried["ctor"] =>
                  /\ reflashes["ctor"] = 1
                  /\ crcPc["ctor"] \in {"flash", "settle"}
                  /\ ctorPc = "sync")
  /\ [][(~queried["ctor"] /\ queried'["ctor"]) => reflashes'["ctor"] = 1]_vars

\* an older version was reported, and the first CRC query follows the one
\* reflash
OlderVersionReflashedWitness ==
  /\ version # NoVersion /\ version < FIRMWARE_VERSION
  /\ queried["ctor"] /\ reflashes["ctor"] = 1
  /\ \E i \in 1..Len(bus) :
       bus[i].kind = "crc" /\ bus[i].who = "ctor" /\ bus[i].n = CRC_RETRIES

\* C7: the first 'data' subscriber issues exactly one RX_START and a further
\* subscriber none; removing the last subscriber issues exactly one RX_STOP
\* and removing another none.
SubscriptionSwitchesOnEdges ==
  [][/\ dataListeners' = dataListeners + 1 =>
          IF dataListeners = 0
          THEN bus' = Append(bus, bus'[Len(bus')]) /\ IssuesListen(RX_START_CMD)
          ELSE bus' = bus
     /\ dataListeners' = dataListeners - 1 =>
          IF dataListeners' = 0
          THEN bus' = Append(bus, bus'[Len(bus')]) /\ IssuesListen(RX_STOP_CMD)
          ELSE bus' = bus]_vars

\* a second subscriber is present and no start request is on the bus
SecondSubscriberWitness ==
  /\ dataListeners = 2 /\ listening
  /\ \A i \in 1..Len(bus) : bus[i].kind # "listen"

\* C8: no RX_STOP is issued while listening is already false and no
\* RX_START while listening is already true.
NoRedundantListenRequest ==
  [][/\ IssuesListen(RX_STOP_CMD) => listening
     /\ IssuesListen(RX_START_CMD) => ~listening]_vars

\* the answer just handed to the fetch: header, 2 gap bytes, M duration
\* bytes, terminator
WellFormedFetch ==
  /\ evt.op = "fetched"
  /\ Len(evt.resp) >= 6
  /\ evt.resp[Len(evt.resp)] = FIN_CONF

\* C9: a fetch answered by the 3-byte header echo, 2 gap bytes, M duration
\* bytes and the terminator 0x16 emits exactly one 'data' signal, carrying
\* exactly the M duration bytes.
WellFormedFetchEmitsData ==
  WellFormedFetch =>
    out = <<Sig("data", "irq", FALSE, SubSeq(evt.resp, 6, Len(evt.resp) - 1))>>

\* C10: a fetch whose answer does not end in 0x16 emits no 'data', raises
\* no error, and completes: the edge listener is armed again.
OutOfFrameFetchIsDiscarded ==
  [][(evt'.op = "fetched" /\ evt'.resp[Len(evt'.resp)] # FIN_CONF) =>
       /\ out' = <<>>
       /\ irqArmed' = irqArmed + 1
       /\ IssuesNothing
       /\ UNCHANGED <<errPending, errorsEmitted>>]_vars

\* an out-of-frame answer has just been discarded and the listener is armed
OutOfFrameWitness ==
  /\ evt.op = "fetched" /\ evt.resp[Len(evt.resp)] # FIN_CONF
  /\ irqArmed >= 1 /\ out = <<>>

\* C11: _validateResponse returns true exactly when every entry of the
\* template other than the wildcard, the byte 0 included, equals the
\* response byte at the same position; a response too short for such an
\* entry fails.
ValidateMatchesTemplate ==
  codec.result \in {"true", "false"} =>
    (codec.result = "true" <=>
       \A i \in 1..Len(codec.expected) :
         \/ codec.expected[i] = WILD
         \/ (i <= Len(codec.values) /\ codec.values[i] = codec.expected[i]))

\* the call just made has a frequency in 1..255 and an even number of
\* duration bytes, at most 200
AcceptableSignal == evt.a \in 1..255 /\ evt.b % 2 = 0 /\ evt.b <= 200

\* the frame of the call just made is [IR_TRANSMIT, frequency, N/2, the N
\* duration bytes, 0x00, 0x16]
FrameIsExact ==
  (evt.op = "sendRawSignal" /\ AcceptableSignal) =>
    /\ bus # <<>>
    /\ bus[Len(bus)].req =
         <<IR_TX_CMD, evt.a, evt.b \div 2>> \o evt.resp \o <<0, FIN_CONF>>
    /\ Len(bus[Len(bus)].req) = evt.b + 5

\* C12: for a frequency in 1..255 and an even number N <= 200 of duration
\* bytes, the frame transferred is [IR_TRANSMIT, frequency, N/2, the N
\* bytes, 0x00, 0x16], and the call completes without error only if the
\* response echoes IR_TRANSMIT, the frequency and N/2.
FrameAndEchoOfSignal ==
  /\ FrameIsExact
  /\ (evt.op = "transmitted" /\ AcceptableSignal
        /\ out = <<Sig("callback", "sendRawSignal", FALSE, <<>>)>>) =>
       /\ evt.resp[2] = IR_TX_CMD
       /\ evt.resp[3] = evt.a
       /\ evt.resp[4] = evt.b \div 2

\* C13: 'ready' is emitted at most once, only after a version query of
\* the construction has succeeded and the firmware sync has completed
\* without error, and never in a run whose handshake or sync failed.
ReadyOnlyAfterSync ==
  /\ readyEmitted + (IF readyPending THEN 1 ELSE 0) <= 1
  /\ (readyEmitted >= 1 \/ readyPending) =>
       /\ version # NoVersion
       /\ syncAttempts = 1
       /\ ctorPc \in {"setListening", "done"}
       /\ crcPc["ctor"] = "idle"
       /\ ~errPending /\ errorsEmitted = 0
  /\ ctorPc \in {"hsFailed", "syncFailed"} => readyEmitted = 0 /\ ~readyPending

\* 'ready' has been emitted after a reflash and its CRC check
ReadyAfterUpdateWitness ==
  readyEmitted = 1 /\ reflashes["ctor"] >= 1 /\ ~readyPending

\* C14: the edge listeners armed on the interrupt line plus the handler
\* runs under way (fetches, deferral timers) never number more than one.
NoDoubleArm == irqArmed + IrqRuns <= 1

\* C15: a handler run never ends without an edge listener being armed: the
\* step that ends a run (its last transfer completes) arms one, whatever
\* the peer answered.
HandlerRunEndsArmed ==
  [][IrqRuns' < IrqRuns => irqArmed' > irqArmed]_vars

ConstructionOver == ctorPc \in {"hsFailed", "syncFailed", "done"}

\* C16: while the caller has at most one operation outstanding (and, here,
\* the construction is over), at most one transfer is outstanding.
SingleTransferOutstanding ==
  (ConstructionOver /\ UserBusy <= 1) => Len(bus) <= 1

PendingQueries ==
  Cardinality({i \in 1..Len(bus) : bus[i].req[1] = IR_RX_AVAIL_CMD})

\* C17: a handler run that finds transmitting true issues no transfer, arms
\* no listener and leaves a 500 ms timer to run again; a fetch starts only
\* in a handler run that finds transmitting false.
HandlerDefersWhileTransmitting ==
  [][/\ (evt'.op = "irqHigh" /\ transmitting) =>
          /\ bus' = bus
          /\ irqArmed' = 0
          /\ deferTimers' = deferTimers + irqArmed
     /\ (evt'.op = "irqRetry" /\ transmitting) =>
          /\ bus' = bus
          /\ irqArmed' = irqArmed
          /\ deferTimers' = deferTimers /\ deferTimers >= 1
     /\ PendingQueries' > PendingQueries =>
          /\ ~transmitting
          /\ evt'.op \in {"irqHigh", "irqRetry"}]_vars

\* an interrupt has just been deferred
DeferredWitness ==
  /\ evt.op = "irqHigh" /\ transmitting
  /\ deferTimers >= 1 /\ irqArmed = 0 /\ PendingQueries = 0

SignalsOutstanding ==
  Cardinality({i \in 1..Len(bus) : bus[i].req[1] = IR_TX_CMD})

\* C18: for calls that do not overlap, transmitting is true from the issue
\* of a sendRawSignal transfer until its completion, whatever the echo, and
\* false whenever no such transfer is outstanding.
TransmittingTracksTransfer ==
  /\ [](SignalsOutstanding = 0 => ~transmitting)
  /\ [][(SignalsOutstanding <= 1 /\ SignalsOutstanding' <= 1) =>
          /\ (SignalsOutstanding = 0 /\ SignalsOutstanding' = 1) => transmitting'
          /\ SignalsOutstanding' = SignalsOutstanding =>
               transmitting' = transmitting]_vars

\* a transmission has just completed with an echo that did not validate
InvalidEchoWitness ==
  /\ evt.op = "transmitted"
  /\ out = <<Sig("callback", "sendRawSignal", TRUE, <<>>)>>
  /\ ~transmitting /\ SignalsOutstanding = 0

\* C19: once 'ready' has been emitted and no transfer is outstanding,
\* listening is true exactly when a 'data' subscriber is registered (every
\* listening request being echoed).
ListeningMatchesSubscribers ==
  (readyEmitted >= 1 /\ bus = <<>>) => (listening <=> dataListeners >= 1)

\* C20: a sendRawSignal call invokes its callback exactly once: at the call
\* when it is rejected (and then issues nothing), on completion of its one
\* transfer when it is accepted; completion issues no further transfer.
CallbackExactlyOnce ==
  [][/\ evt'.op = "sendRawSignal" =>
          \/ (bus' = bus /\ Len(out') = 1)
          \/ (Len(bus') = Len(bus) + 1 /\ out' = <<>>)
     /\ evt'.op = "transmitted" =>
          (Len(out') = 1 /\ bus' = Tail(bus))]_vars

====
